---- MODULE Spec2Model ----
(***************************************************************************)
(* Model of deploy.py: a linear deployment script.  It parses its command  *)
(* line, queries AWS for the instance named by --hostname, optionally      *)
(* starts the instance, rsyncs the selected file groups, runs a remote     *)
(* shell script over ssh and optionally stops the instance.                *)
(*                                                                         *)
(* The external world is the outcome of each subprocess: its exit status   *)
(* and, for the describe-instances query, its standard output.             *)
(***************************************************************************)
EXTENDS Integers, Sequences, FiniteSets

------------------------------------------------------------------------------
(* Bounds of the model *)

\* longest --include list explored (argparse nargs="*" accepts any length)
MaxInclude == 2
\* longest list of instances the describe-instances query answers with
MaxInstances == 2

------------------------------------------------------------------------------
(* Values *)

\* choices of --include (deploy.py:22)
Groups == {"bot", "model", "config"}

\* exit statuses a subprocess may end with
ExitCodes == {0, 1}

\* --hostname: the default and one explicit value
Hostnames == {"bot4", "h1"}

\* --modelPath, as path components: the default and one explicit value
ModelPaths == {<<"model.zst">>, <<"models", "m2.zst">>}

\* Optional list: None, or a list of values
None == [none |-> TRUE, v |-> <<>>]
Some(s) == [none |-> FALSE, v |-> s]

SeqUpTo(S, n) == UNION {[1..k -> S] : k \in 0..n}

\* values args.include can take: None when -i is not given, else a list
\* (possibly empty, possibly with repeats) of choices
Includes == {None} \cup {Some(s) : s \in SeqUpTo(Groups, MaxInclude)}

\* instances the query can report: {i: InstanceId, a: Architecture}
Instances == { [i |-> "i-0a", a |-> "x86_64"],
               [i |-> "i-0b", a |-> "arm64"],
               [i |-> "i-0c", a |-> "i386"] }

\* standard output of the query: text that is not JSON, or a JSON list
\* (the output of the other commands is never parsed: it is text too)
NotJson == [json |-> FALSE, list |-> <<>>]
JsonList(l) == [json |-> TRUE, list |-> l]
Stdouts == {NotJson} \cup {JsonList(l) : l \in SeqUpTo(Instances, MaxInstances)}

NoArgs == [hostname |-> "", include |-> None, modelPath |-> <<>>,
           startStopInstance |-> FALSE]

\* ret and obj before their first assignment
NoRet == [rc |-> 0, stdout |-> NotJson]
NoObj == [i |-> "", a |-> ""]

VARIABLES
    pc,             \* position in the script
    args,           \* parsed command line
    cmds,           \* external commands issued so far, with their exit status
    printed,        \* lines printed so far
    ret,            \* result of the last subprocess.run of the main script
    obj,            \* json.loads(ret.stdout)[0]
    instance_id,    \* obj["i"]
    target_triple,  \* ARCH_TO_TARGET[obj["a"]]
    exc             \* the unhandled exception that ended the run, or "none"

vars == <<pc, args, cmds, printed, ret, obj, instance_id, target_triple, exc>>

------------------------------------------------------------------------------
(* Pure helpers *)

\* (variant: the two targets exchanged)
ARCH_TO_TARGET_swapped ==
    [a \in {"x86_64", "arm64"} |->
        IF a = "x86_64" THEN "aarch64-unknown-linux-gnu"
                        ELSE "x86_64-unknown-linux-gnu"]

ARCH_TO_TARGET ==
    [a \in {"x86_64", "arm64"} |->
        IF a = "x86_64" THEN "x86_64-unknown-linux-gnu"
                        ELSE "aarch64-unknown-linux-gnu"]

\* os.path.basename on a path given as its components
basename(path) == path[Len(path)]

\* (variant: only the first element is compared)
InFirstOnly(x, lst) == Len(lst) > 0 /\ lst[1] = x

\* x in lst, for a list
In(x, lst) == \E k \in DOMAIN lst : lst[k] = x

\* (variants: a membership test that never raises; one that raises on an
\* empty list too)
MembershipRaisesNever(include) == FALSE

MembershipRaisesOnEmpty(include) == include.none \/ include.v = <<>>

\* `x in include` raises TypeError when include is None
MembershipRaises(include) == include.none

\* (variant: subprocess.run(..., check=True))
SubprocessRaisesOnFailure(rc) == rc # 0

\* subprocess.run is called without check=True: a non-zero exit status
\* raises nothing

SubprocessRaises(rc) == FALSE

\* what printing ret.stdout / ret.stderr shows
Output(rc) == IF rc = 0 THEN "output" ELSE "error output"

\* the commands
DescribeCmd(hostname) ==
    [tool |-> "aws", op |-> "describe-instances", target |-> hostname]

StartCmd(id) ==
    [tool |-> "aws", op |-> "start-instances && wait instance-running",
     target |-> id]

StopCmd(id) ==
    [tool |-> "aws", op |-> "stop-instances && wait instance-stopped",
     target |-> id]

RsyncCmd(src, dest) ==
    [tool |-> "rsync", opts |-> "-uvz", src |-> src, dest |-> dest]

RemoteHome(hostname) == [host |-> hostname, dir |-> "~/"]

BotPath(triple) == <<"target", triple, "release", "bot">>

SshScript ==
    << "sudo su -",
       "mkdir -p /usr/local/bot",
       "mv /home/ec2-user/* /usr/local/bot/",
       "crontab /usr/local/bot/cron-settings.crontab" >>

SshCmd(hostname) ==
    [tool |-> "ssh", host |-> hostname, opts |-> "-t", script |-> SshScript]

------------------------------------------------------------------------------
(* Steps of the script *)

\* one subprocess.run: the command is issued, its exit status recorded, and
\* the script goes on to `next` unless the call raises
Run(cmd, rc, next) ==
    /\ cmds' = Append(cmds, [cmd |-> cmd, rc |-> rc])
    /\ IF SubprocessRaises(rc)
         THEN pc' = "fault" /\ exc' = "CalledProcessError"
         ELSE pc' = next /\ exc' = exc

\* rsync(src, dest): print the file name, run rsync, print its output; its
\* ret is local, the script's ret is left alone
\* (`before` is what the caller printed just before the call)
rsync(src, dest, before, next) ==
    \E rc \in ExitCodes :
        /\ Run(RsyncCmd(src, dest), rc, next)
        /\ printed' = printed \o before
                          \o << <<"rsync ", basename(src), ":">>,
                                <<Output(rc)>>, <<Output(rc)>> >>

Init ==
    /\ pc = "parse_args"
    /\ args = NoArgs
    /\ cmds = <<>>
    /\ printed = <<>>
    /\ ret = NoRet
    /\ obj = NoObj
    /\ instance_id = ""
    /\ target_triple = ""
    /\ exc = "none"

ParseArgs ==
    /\ pc = "parse_args"
    /\ \E h \in Hostnames, inc \in Includes, m \in ModelPaths, s \in BOOLEAN :
          args' = [hostname |-> h, include |-> inc, modelPath |-> m,
                   startStopInstance |-> s]
    /\ pc' = "describe"
    /\ UNCHANGED <<cmds, printed, ret, obj, instance_id, target_triple, exc>>

Describe ==
    /\ pc = "describe"
    /\ \E rc \in ExitCodes, out \in Stdouts :
          /\ Run(DescribeCmd(args.hostname), rc, "load")
          /\ ret' = [rc |-> rc, stdout |-> out]
          /\ printed' = printed \o << <<"hostname: ", args.hostname>>,
                                      <<Output(rc)>> >>
    /\ UNCHANGED <<args, obj, instance_id, target_triple>>

\* (variant: an empty answer is let through)
LoadTolerant ==
    /\ pc = "load"
    /\ IF ~ret.stdout.json
         THEN pc' = "fault" /\ exc' = "JSONDecodeError"
                /\ UNCHANGED <<obj, instance_id, target_triple>>
         ELSE IF ret.stdout.list = <<>>
         THEN pc' = "start" /\ exc' = exc
                /\ UNCHANGED <<obj, instance_id, target_triple>>
         ELSE IF ret.stdout.list[1].a \notin DOMAIN ARCH_TO_TARGET
         THEN pc' = "fault" /\ exc' = "KeyError"
                /\ obj' = ret.stdout.list[1]
                /\ instance_id' = obj'.i
                /\ UNCHANGED target_triple
         ELSE /\ pc' = "start" /\ exc' = exc
              /\ obj' = ret.stdout.list[1]
              /\ instance_id' = obj'.i
              /\ target_triple' = ARCH_TO_TARGET[obj'.a]
    /\ UNCHANGED <<args, cmds, printed, ret>>

\* obj = json.loads(ret.stdout)[0]; instance_id = obj["i"];
\* target_triple = ARCH_TO_TARGET[obj["a"]]
Load ==
    /\ pc = "load"
    /\ IF ~ret.stdout.json
         THEN pc' = "fault" /\ exc' = "JSONDecodeError"
                /\ UNCHANGED <<obj, instance_id, target_triple>>
         ELSE IF ret.stdout.list = <<>>
         THEN pc' = "fault" /\ exc' = "IndexError"
                /\ UNCHANGED <<obj, instance_id, target_triple>>
         ELSE IF ret.stdout.list[1].a \notin DOMAIN ARCH_TO_TARGET
         THEN pc' = "fault" /\ exc' = "KeyError"
                /\ obj' = ret.stdout.list[1]
                /\ instance_id' = obj'.i
                /\ UNCHANGED target_triple
         ELSE /\ pc' = "start" /\ exc' = exc
              /\ obj' = ret.stdout.list[1]
              /\ instance_id' = obj'.i
              /\ target_triple' = ARCH_TO_TARGET[obj'.a]
    /\ UNCHANGED <<args, cmds, printed, ret>>

\* (variant: the start command without its guard)
StartInstanceAlways ==
    /\ pc = "start"
    /\ \E rc \in ExitCodes :
          /\ Run(StartCmd(instance_id), rc, "bot")
          /\ ret' = [rc |-> rc, stdout |-> NotJson]
          /\ printed' = printed \o
                << <<"start instance. instance_id: ", instance_id>>,
                   <<Output(rc)>>,
                   <<"start instance done.">> >>
    /\ UNCHANGED <<args, obj, instance_id, target_triple>>

StartInstance ==
    /\ pc = "start"
    /\ IF args.startStopInstance
         THEN \E rc \in ExitCodes :
                /\ Run(StartCmd(instance_id), rc, "bot")
                /\ ret' = [rc |-> rc, stdout |-> NotJson]
                /\ printed' = printed \o
                      << <<"start instance. instance_id: ", instance_id>>,
                         <<Output(rc)>>,
                         <<"start instance done.">> >>
         ELSE pc' = "bot" /\ UNCHANGED <<cmds, printed, ret, exc>>
    /\ UNCHANGED <<args, obj, instance_id, target_triple>>

\* a membership test on None ends the run
TypeError ==
    /\ pc' = "fault"
    /\ exc' = "TypeError"
    /\ UNCHANGED <<cmds, printed>>

Bot ==
    /\ pc = "bot"
    /\ IF MembershipRaises(args.include) THEN TypeError
       ELSE IF In("bot", args.include.v)
         THEN rsync(BotPath(target_triple), RemoteHome(args.hostname),
                    << <<"target_triple: ", target_triple>> >>, "model")
         ELSE /\ pc' = "model"
              /\ printed' = Append(printed, <<"skip bot">>)
              /\ UNCHANGED <<cmds, exc>>
    /\ UNCHANGED <<args, ret, obj, instance_id, target_triple>>

Model ==
    /\ pc = "model"
    /\ IF MembershipRaises(args.include) THEN TypeError
       ELSE IF In("model", args.include.v)
         THEN rsync(args.modelPath, RemoteHome(args.hostname), <<>>, "config")
         ELSE /\ pc' = "config"
              /\ printed' = Append(printed, <<"skip model">>)
              /\ UNCHANGED <<cmds, exc>>
    /\ UNCHANGED <<args, ret, obj, instance_id, target_triple>>

\* (variant: the else branch of the config group leaves out the remote shell)
ConfigElseSkipsSsh ==
    /\ pc = "config"
    /\ IF MembershipRaises(args.include) THEN TypeError
       ELSE IF In("config", args.include.v)
         THEN rsync(<<"config.bot.yaml">>, RemoteHome(args.hostname), <<>>,
                    "config_yaml")
         ELSE /\ pc' = "stop"
              /\ printed' = Append(printed, <<"skip config">>)
              /\ UNCHANGED <<cmds, exc>>
    /\ UNCHANGED <<args, ret, obj, instance_id, target_triple>>

\* the membership test of the config group and its first transfer
Config ==
    /\ pc = "config"
    /\ IF MembershipRaises(args.include) THEN TypeError
       ELSE IF In("config", args.include.v)
         THEN rsync(<<"config.bot.yaml">>, RemoteHome(args.hostname), <<>>,
                    "config_yaml")
         ELSE /\ pc' = "ssh"
              /\ printed' = Append(printed, <<"skip config">>)
              /\ UNCHANGED <<cmds, exc>>
    /\ UNCHANGED <<args, ret, obj, instance_id, target_triple>>

ConfigYaml ==
    /\ pc = "config_yaml"
    /\ rsync(<<"config.yaml">>, RemoteHome(args.hostname), <<>>, "crontab")
    /\ UNCHANGED <<args, ret, obj, instance_id, target_triple>>

Crontab ==
    /\ pc = "crontab"
    /\ rsync(<<"cron-settings.crontab">>, RemoteHome(args.hostname), <<>>, "ssh")
    /\ UNCHANGED <<args, ret, obj, instance_id, target_triple>>

Ssh ==
    /\ pc = "ssh"
    /\ \E rc \in ExitCodes :
          /\ Run(SshCmd(args.hostname), rc, "stop")
          /\ ret' = [rc |-> rc, stdout |-> NotJson]
          /\ printed' = printed \o << <<Output(rc)>>, <<Output(rc)>> >>
    /\ UNCHANGED <<args, obj, instance_id, target_triple>>

\* (variant: the stop command without its guard)
StopInstanceAlways ==
    /\ pc = "stop"
    /\ \E rc \in ExitCodes :
          /\ Run(StopCmd(instance_id), rc, "done")
          /\ ret' = [rc |-> rc, stdout |-> NotJson]
          /\ printed' = printed \o << <<"stop instance">>, <<Output(rc)>> >>
    /\ UNCHANGED <<args, obj, instance_id, target_triple>>

StopInstance ==
    /\ pc = "stop"
    /\ IF args.startStopInstance
         THEN \E rc \in ExitCodes :
                /\ Run(StopCmd(instance_id), rc, "done")
                /\ ret' = [rc |-> rc, stdout |-> NotJson]
                /\ printed' = printed \o << <<"stop instance">>, <<Output(rc)>> >>
         ELSE pc' = "done" /\ UNCHANGED <<cmds, printed, ret, exc>>
    /\ UNCHANGED <<args, obj, instance_id, target_triple>>

Next ==
    \/ ParseArgs \/ Describe \/ Load \/ StartInstance
    \/ Bot \/ Model \/ Config \/ ConfigYaml \/ Crontab
    \/ Ssh \/ StopInstance

Spec == Init /\ [][Next]_vars

------------------------------------------------------------------------------
(* Vocabulary of the properties *)

IsTool(k, t) == cmds[k].cmd.tool = t
IsOp(k, op) == IsTool(k, "aws") /\ cmds[k].cmd.op = op

RsyncAt == {k \in DOMAIN cmds : IsTool(k, "rsync")}
SshAt   == {k \in DOMAIN cmds : IsTool(k, "ssh")}
AwsAt   == {k \in DOMAIN cmds : IsTool(k, "aws")}
StartAt == {k \in DOMAIN cmds : IsOp(k, StartCmd("").op)}
StopAt  == {k \in DOMAIN cmds : IsOp(k, StopCmd("").op)}
FailedAt == {k \in DOMAIN cmds : cmds[k].rc # 0}

IsRsyncEntry(e) == e.cmd.tool = "rsync"
\* the transfers issued so far, in order, as (src, dest) pairs
Transfers ==
    [k \in DOMAIN SelectSeq(cmds, IsRsyncEntry) |->
        [src  |-> SelectSeq(cmds, IsRsyncEntry)[k].cmd.src,
         dest |-> SelectSeq(cmds, IsRsyncEntry)[k].cmd.dest]]

Selected == {args.include.v[k] : k \in DOMAIN args.include.v}

SkipLine(g) ==
    CASE g = "bot"    -> <<"skip bot">>
      [] g = "model"  -> <<"skip model">>
      [] g = "config" -> <<"skip config">>

TimesPrinted(line) == Cardinality({k \in DOMAIN printed : printed[k] = line})

IsPrefix(s, t) == Len(s) <= Len(t) /\ SubSeq(t, 1, Len(s)) = s

\* the query answered with a list whose first instance has a known architecture
Usable(out) ==
    /\ out.json
    /\ out.list # <<>>
    /\ out.list[1].a \in {"x86_64", "arm64"}

\* the exceptions of parsing the query's answer
LoadErrors == {"JSONDecodeError", "IndexError", "KeyError"}

\* the run ended while parsing an answer that was not usable (ret is still
\* the query's result there)
UnusableAnswerFault ==
    /\ exc \in LoadErrors
    /\ ~Usable(ret.stdout)
    /\ Len(cmds) = 1

Queried == pc \notin {"parse_args", "describe"}
TransfersOver == pc \in {"ssh", "stop", "done"}
Ended == pc \in {"done", "fault"}

------------------------------------------------------------------------------
(* C1 *)

Home == [host |-> args.hostname, dir |-> "~/"]

\* the transfers a selection S asks for, in the order of the script
TransfersOf(S) ==
    (IF "bot" \in S
       THEN << [src |-> <<"target", target_triple, "release", "bot">>,
                dest |-> Home] >>
       ELSE <<>>)
    \o (IF "model" \in S
       THEN << [src |-> args.modelPath, dest |-> Home] >>
       ELSE <<>>)
    \o (IF "config" \in S
       THEN << [src |-> <<"config.bot.yaml">>, dest |-> Home],
               [src |-> <<"config.yaml">>, dest |-> Home],
               [src |-> <<"cron-settings.crontab">>, dest |-> Home] >>
       ELSE <<>>)

------------------------------------------------------------------------------
(* C2 *)

\* C2: with --startStopInstance a start command precedes every transfer and
\* the remote shell step, the stop command comes after the remote shell step
\* (it is the last command of a finished run, right after ssh); without the
\* flag no start and no stop command is ever issued.
C2_LifecycleOrder ==
    LET starts == StartAt
        stops  == StopAt
        sshs   == SshAt
    IN  /\ args.startStopInstance =>
              /\ \A k \in RsyncAt \cup sshs : \E j \in starts : j < k
              /\ \A j \in stops : \E k \in sshs : k < j
              /\ Cardinality(starts) <= 1 /\ Cardinality(stops) <= 1
              /\ pc = "done" => /\ stops = {Len(cmds)}
                                /\ sshs = {Len(cmds) - 1}
                                /\ starts = {2}
        /\ ~args.startStopInstance => starts = {} /\ stops = {}

C2_Witness ==
    /\ pc = "done"
    /\ args.startStopInstance
    /\ RsyncAt # {}
    /\ StartAt # {} /\ StopAt # {}

------------------------------------------------------------------------------
(* C3 *)

\* C3 as claimed: without the lifecycle flag a run makes no cloud API call.
C3_NoCloudCallWithoutFlag ==
    ~args.startStopInstance => AwsAt = {}

\* C3 amended: the instance description query is the first command of every
\* run, with or without the flag; without the flag it is the only cloud API
\* call, every other command being an rsync or the ssh step.
C3_OnlyDescribeWithoutFlag ==
    /\ Queried =>
          /\ cmds # <<>>
          /\ cmds[1].cmd = [tool |-> "aws", op |-> "describe-instances",
                            target |-> args.hostname]
    /\ ~args.startStopInstance =>
          /\ AwsAt \subseteq {1}
          /\ \A k \in DOMAIN cmds \ {1} : IsTool(k, "rsync") \/ IsTool(k, "ssh")

C3_Witness ==
    /\ pc = "done"
    /\ ~args.startStopInstance
    /\ args.hostname = "h1"
    /\ args.include = Some(<<"bot", "config">>)
    /\ AwsAt = {1}
    /\ Cardinality(RsyncAt) = 4 /\ Cardinality(SshAt) = 1

------------------------------------------------------------------------------
(* C4 *)

\* C4 as claimed: no failed command halts the run (a run that ends in a
\* fault other than the membership test on an absent include list has no
\* failed command behind it).
C4_NoFailureHalts ==
    (pc = "fault" /\ exc # "TypeError") => FailedAt = {}

\* C4 amended: exit statuses are never looked at.  A run faults only while
\* parsing a query answer that is not a JSON list with a first instance of
\* known architecture (whatever the query's exit status), or at the
\* membership test on an absent include list; no failed start, stop, rsync or
\* ssh command ends it.  Every run that has not ended has a next step, and a
\* finished run has issued the ssh step (and the stop command, last, when
\* asked for), whatever the exit statuses of its commands.
C4_ExitStatusIgnored ==
    /\ pc = "fault" =>
          \/ UnusableAnswerFault
          \/ exc = "TypeError" /\ args.include.none
    /\ pc # "fault" => exc = "none"
    /\ ~Ended => ENABLED Next
    /\ pc = "done" =>
          /\ Cardinality(SshAt) = 1
          /\ args.startStopInstance => IsOp(Len(cmds), StopCmd("").op)

C4_Witness ==
    /\ pc = "done"
    /\ args.startStopInstance
    /\ Len(cmds) >= 6
    /\ FailedAt = DOMAIN cmds

------------------------------------------------------------------------------
(* C5 *)

\* C5: when --include is not given, the run never gets past the first
\* membership test: no rsync and no ssh command is issued, and the run ends
\* there with a TypeError (unless it already ended on an unusable query
\* answer), without printing a skip message.
C5_AbsentIncludeFaults ==
    (Queried /\ args.include.none) =>
        /\ RsyncAt = {} /\ SshAt = {}
        /\ pc \in {"load", "start", "bot", "fault"}
        /\ pc = "fault" => exc = "TypeError" \/ UnusableAnswerFault
        /\ \A g \in Groups : TimesPrinted(SkipLine(g)) = 0

C5_Witness ==
    /\ args.include.none
    /\ pc = "fault" /\ exc = "TypeError"
    /\ cmds # <<>>

------------------------------------------------------------------------------
(* C6 *)

\* C6 as claimed: with an empty include list the run faults before any
\* transfer, like a run without --include: it never gets past the first
\* membership test.
C6_EmptyIncludeFaults ==
    (Queried /\ args.include = Some(<<>>)) =>
        pc \in {"load", "start", "bot", "fault"}

\* C6 amended: with an empty include list (-i with no value) no membership
\* test faults: the run issues no transfer, prints the three skip messages
\* and goes on to the remote shell step; it ends normally (unless it already
\* ended on an unusable query answer).
C6_EmptyIncludeSkipsAll ==
    (Queried /\ args.include = Some(<<>>)) =>
        /\ exc # "TypeError"
        /\ RsyncAt = {}
        /\ pc = "fault" => UnusableAnswerFault
        /\ TransfersOver =>
              \A g \in Groups : TimesPrinted(SkipLine(g)) = 1
        /\ pc \in {"stop", "done"} => Cardinality(SshAt) = 1

C6_Witness ==
    /\ args.include = Some(<<>>)
    /\ pc = "done"
    /\ SshAt # {}
    /\ RsyncAt = {}

------------------------------------------------------------------------------
(* C7 *)

\* the build target the claim gives for an architecture
ClaimedTarget(a) ==
    CASE a = "x86_64" -> "x86_64-unknown-linux-gnu"
      [] a = "arm64"  -> "aarch64-unknown-linux-gnu"

\* C7: the instance is the first of the query's answer; x86_64 maps to
\* x86_64-unknown-linux-gnu and arm64 to aarch64-unknown-linux-gnu; any other
\* architecture ends the run with a KeyError with only the query issued; the
\* bot binary is synced from target/<mapped target>/release/bot.
C7_ArchToTarget ==
    pc \notin {"parse_args", "describe", "load"} =>
        /\ pc = "start" =>
              /\ ret.stdout.json /\ ret.stdout.list # <<>>
              /\ obj = ret.stdout.list[1]
        /\ (pc # "fault" \/ exc = "TypeError") =>
              /\ obj.a \in {"x86_64", "arm64"}
              /\ target_triple = ClaimedTarget(obj.a)
              /\ \A k \in RsyncAt :
                    basename(cmds[k].cmd.src) = "bot" =>
                       cmds[k].cmd.src =
                          <<"target", ClaimedTarget(obj.a), "release", "bot">>
        /\ (ret.stdout.json /\ ret.stdout.list # <<>>
              /\ ret.stdout.list[1].a \notin {"x86_64", "arm64"}) =>
              /\ pc = "fault" /\ exc = "KeyError"
              /\ obj = ret.stdout.list[1]
              /\ Len(cmds) = 1 /\ IsOp(1, "describe-instances")

C7_Witness ==
    /\ pc = "done"
    /\ obj.a = "arm64"
    /\ \E k \in RsyncAt :
          cmds[k].cmd.src =
             <<"target", "aarch64-unknown-linux-gnu", "release", "bot">>

------------------------------------------------------------------------------
(* C8 *)

\* C8: when the query answers with an empty list, the run ends with an
\* IndexError where the first element is taken: the query is the only command
\* ever issued (no start, transfer, ssh or stop).
C8_NoInstanceFaults ==
    (pc \notin {"parse_args", "describe", "load"}
        /\ ret.stdout.json /\ ret.stdout.list = <<>>) =>
        /\ pc = "fault" /\ exc = "IndexError"
        /\ Len(cmds) = 1 /\ IsOp(1, "describe-instances")
        /\ StartAt = {} /\ RsyncAt = {} /\ SshAt = {} /\ StopAt = {}

C8_Witness ==
    /\ pc = "fault" /\ exc = "IndexError"
    /\ ret.stdout.json /\ ret.stdout.list = <<>>
    /\ args.startStopInstance
    /\ ~args.include.none

------------------------------------------------------------------------------
(* C9 *)

\* C9: once the transfer step is over, the remote shell step (sudo, mkdir -p
\* /usr/local/bot, mv of the home directory's contents, crontab) is issued
\* exactly once, to args.hostname, after every transfer and before any stop
\* command, for every selection including the empty one; before that no ssh
\* command is issued.
C9_RemoteShellOnce ==
    /\ pc \in {"stop", "done"} =>
          /\ Cardinality(SshAt) = 1
          /\ \A k \in SshAt :
                /\ cmds[k].cmd.host = args.hostname
                /\ cmds[k].cmd.script =
                      << "sudo su -",
                         "mkdir -p /usr/local/bot",
                         "mv /home/ec2-user/* /usr/local/bot/",
                         "crontab /usr/local/bot/cron-settings.crontab" >>
                /\ \A j \in RsyncAt : j < k
                /\ \A j \in StopAt : k < j
    /\ pc \notin {"stop", "done"} => SshAt = {}
    /\ pc = "done" => SshAt # {}

C9_Witness ==
    /\ pc = "done"
    /\ args.include = Some(<<>>)
    /\ Cardinality(SshAt) = 1
    /\ StopAt # {}

------------------------------------------------------------------------------
(* C10 *)

\* C10: in every run that has ended, a start command issued in the run is
\* followed by a stop command.
C10_StartedIsStopped ==
    Ended => \A j \in StartAt : \E k \in StopAt : j < k

====
